---- MODULE Spec2Model ----
(***************************************************************************)
(* Agro Shop: catalog, session cart, web checkout, JSON order API and      *)
(* admin panel, over one SQLite file shared by all request threads.        *)
(*                                                                         *)
(* Money is modelled in whole currency units (the seed prices are whole);  *)
(* the REAL columns' binary rounding is outside the model.  The order      *)
(* timestamp created_at is not modelled.                                   *)
(*                                                                         *)
(* Spec and SpecSerial follow the tables, the sessions and the threads     *)
(* that create orders; there the one-step handlers appear by their effect  *)
(* on the tables and the session only.  SpecHttp follows every one-step    *)
(* handler whole, with the response it returns (out) and the metrics that  *)
(* track_metrics records (metrics); the business counters and gauges       *)
(* (database_operations_total, products_count, ...) are not modelled.      *)
(* SpecStartup starts from the store before create_tables has ever run and *)
(* follows the starts of the process; SpecCart follows one session's cart  *)
(* and its page while products are created, repriced and deleted.          *)
(* SpecCatalog follows the product routes of the API alone.                *)
(***************************************************************************)
EXTENDS Integers, Sequences, FiniteSets, TLC

\* ------------------------------------------------------------------ bounds
MaxCreates == 1   \* products created after the seed
MaxCartQty == 2   \* largest quantity a cart entry is driven to
MaxLines   == 2   \* longest API order line list

\* ------------------------------------------------------------- the workers
Procs    == {1, 2}      \* request threads, each serving one order creation
Sessions == {"s1"}      \* client sessions

NoLock == 0

VARIABLES
    products,      \* table products: id -> [name, price]
    seqProducts,   \* sqlite_sequence of products (AUTOINCREMENT never reuses)
    orders,        \* table orders, committed rows; the row id is the index
    order_items,   \* table order_items, committed rows; the row id is the index
    admin,         \* table admin: rows [username, password]; the row id is the index
    session,       \* session store: sid -> [cart, admin]
    lock,          \* the connection holding SQLite's write lock, or NoLock
    pc,            \* each thread's position in checkout() / create_order()
    req,           \* each thread's request
    local,         \* each thread's local variables
    resp,          \* each thread's response, once returned
    lines,         \* per committed order: how many lines its request had
    out,           \* the response of the last request served in one step
    metrics        \* the Prometheus registry: api_requests_total (labels ->
                   \* count) and the observations of api_request_duration

vars == <<products, seqProducts, orders, order_items, admin, session, lock,
          pc, req, local, resp, lines, out, metrics>>

\* ------------------------------------------------------------- seed data
SeedCount == 5

SeedProducts ==
    (1 :> [name |-> "Sabzi",     price |-> 12000]) @@
    (2 :> [name |-> "Kartoshka", price |-> 10000]) @@
    (3 :> [name |-> "Qovun",     price |-> 10050]) @@
    (4 :> [name |-> "Kalbasa",   price |-> 10022]) @@
    (5 :> [name |-> "Tarvuz",    price |-> 10031])

SeedAdmin == <<[username |-> "admin", password |-> "1234"]>>

\* the rows of table admin
AdminRows(rows) == {rows[i] : i \in DOMAIN rows}

\* ------------------------------------------------------------- inputs
\* product ids requests name: a seeded product and the first id created later
PidInputs   == {1, SeedCount + 1}
NameInputs  == {"Olma"}
\* a price as the client sends it: text that float() parses (num) or rejects
PriceInputs == {[num |-> TRUE, val |-> 7], [num |-> FALSE, val |-> 0]}
Logins      == {[username |-> "admin", password |-> "1234"],
                [username |-> "admin", password |-> "0000"]}
CartQtyInputs == (-1)..MaxCartQty
Customers   == {"Ali"}

\* ------------------------------------------------------- text <-> integer
\* str(product_id): the decimal digits of a non-negative integer.
RECURSIVE Str(_)
Str(n) ==
    IF n < 10 THEN <<n>> ELSE Append(Str(n \div 10), n % 10)

\* SQLite's INTEGER affinity applied to a text parameter compared with the
\* INTEGER PRIMARY KEY: the number the digits denote.
RECURSIVE SqlInt(_)
SqlInt(k) ==
    IF Len(k) = 0 THEN 0
    ELSE 10 * SqlInt(SubSeq(k, 1, Len(k) - 1)) + k[Len(k)]

\* SELECT * FROM products WHERE id=?  ->  the row, or None
HasProduct(id) == id \in DOMAIN products
Product(id) == products[id]

\* ------------------------------------------------------------- records
NoReq   == [kind |-> "none"]
NoResp  == [status |-> 0, total |-> 0, id |-> 0]
NoLocal == [cart |-> <<>>, i |-> 0, total |-> 0, items |-> <<>>, order_id |-> 0,
            wOrder |-> <<>>, wItems |-> <<>>]

NoOut   == [op |-> "none", status |-> 0, location |-> "", body |-> <<>>]
NoMetrics == [requests |-> <<>>, observations |-> 0]

EmptyCart == <<>>

\* dict.get(key, 0)
CartGet(cart, key) == IF key \in DOMAIN cart THEN cart[key] ELSE 0

\* cart[key] = qty
CartSet(cart, key, qty) ==
    [k \in DOMAIN cart \cup {key} |-> IF k = key THEN qty ELSE cart[k]]

\* cart.pop(key, None)
CartPop(cart, key) == [k \in DOMAIN cart \ {key} |-> cart[k]]

\* cart.items(): the entries in the dict's order, modelled as ascending id.
RECURSIVE CartItems(_)
CartItems(cart) ==
    IF DOMAIN cart = {} THEN <<>>
    ELSE LET k == CHOOSE x \in DOMAIN cart :
                      \A y \in DOMAIN cart : SqlInt(x) <= SqlInt(y)
         IN  <<[pid |-> k, qty |-> cart[k]]>> \o CartItems(CartPop(cart, k))

Init ==
    /\ products = SeedProducts
    /\ seqProducts = SeedCount
    /\ orders = <<>>
    /\ order_items = <<>>
    /\ admin = SeedAdmin
    /\ session = [s \in Sessions |-> [cart |-> EmptyCart, admin |-> FALSE]]
    /\ lock = NoLock
    /\ pc = [p \in Procs |-> "idle"]
    /\ req = [p \in Procs |-> NoReq]
    /\ local = [p \in Procs |-> NoLocal]
    /\ resp = [p \in Procs |-> NoResp]
    /\ lines = <<>>
    /\ out = NoOut
    /\ metrics = NoMetrics

dbVars   == <<products, seqProducts, orders, order_items, admin, lines>>
procVars == <<pc, req, local, resp>>
httpVars == <<out, metrics>>

\* ------------------------------------------------------------- cart
MutAddToCartResult(cart, product_id) == CartSet(cart, Str(product_id), 1)

\* add_to_cart(product_id)
AddToCartResult(cart, product_id) ==
    CartSet(cart, Str(product_id), CartGet(cart, Str(product_id)) + 1)

AddToCart(s, product_id) ==
    /\ session' = [session EXCEPT ![s].cart = AddToCartResult(@, product_id)]
    /\ UNCHANGED <<httpVars, dbVars, procVars, lock>>

MutUpdateQtyStoresAny(cart, pid, qty) == CartSet(cart, Str(pid), qty)

MutUpdateQtyResult(cart, pid, qty) ==
    IF qty < 0 THEN CartPop(cart, Str(pid)) ELSE CartSet(cart, Str(pid), qty)

\* update_qty(pid) with form field qty
UpdateQtyResult(cart, pid, qty) ==
    IF qty <= 0 THEN CartPop(cart, Str(pid)) ELSE CartSet(cart, Str(pid), qty)

UpdateQty(s, pid, qty) ==
    /\ session' = [session EXCEPT ![s].cart = UpdateQtyResult(@, pid, qty)]
    /\ UNCHANGED <<httpVars, dbVars, procVars, lock>>

\* cart(): one line per cart entry, joined with its product row; a product
\* that is gone reads as None and product["price"] raises
CartViewOk(cart) == \A k \in DOMAIN cart : HasProduct(SqlInt(k))

CartView(cart) ==
    [i \in 1..Len(CartItems(cart)) |->
        LET e == CartItems(cart)[i]
        IN  [id |-> SqlInt(e.pid), product |-> Product(SqlInt(e.pid)),
             qty |-> e.qty, subtotal |-> Product(SqlInt(e.pid)).price * e.qty]]

\* ------------------------------------------------------------- admin gate
\* admin_login(), POST
AdminLogin(s, cred) ==
    /\ \E a \in AdminRows(admin) : a.username = cred.username /\ a.password = cred.password
    /\ session' = [session EXCEPT ![s].admin = TRUE]
    /\ UNCHANGED <<httpVars, dbVars, procVars, lock>>

Mut_admin_required(s) == TRUE

\* admin_required()
admin_required(s) == session[s].admin

\* ------------------------------------------------------------- catalog
\* float(x): defined on text that parses as a number, raises otherwise
Parses(x) == x.num
Float(x) == x.val

\* an insert that takes the id after the largest one in the table
MutInsertProduct(name, price) ==
    /\ products' =
          ((CHOOSE m \in DOMAIN products : \A k \in DOMAIN products : k <= m) + 1
              :> [name |-> name, price |-> price]) @@ products
    /\ seqProducts' = seqProducts + 1

\* INSERT INTO products(name, price) VALUES (?, ?)
InsertProduct(name, price) ==
    /\ products' = (seqProducts + 1 :> [name |-> name, price |-> price]) @@ products
    /\ seqProducts' = seqProducts + 1

\* UPDATE products SET name=?, price=? WHERE id=?
UpdateProductRows(id, name, price) ==
    IF id \in DOMAIN products
    THEN [products EXCEPT ![id] = [name |-> name, price |-> price]]
    ELSE products

MutDeleteProductRows(id) == [k \in DOMAIN products \ {id, 1} |-> products[k]]

\* DELETE FROM products WHERE id=?
DeleteProductRows(id) == [k \in DOMAIN products \ {id} |-> products[k]]

\* add_product(), POST
AdminAddProduct(s, name, price) ==
    /\ admin_required(s)
    /\ Parses(price)
    /\ lock = NoLock
    /\ InsertProduct(name, Float(price))
    /\ UNCHANGED <<httpVars, orders, order_items, admin, lines, session, procVars, lock>>

\* delete_product(id) of the admin panel
AdminDeleteProduct(s, id) ==
    /\ admin_required(s)
    /\ lock = NoLock
    /\ products' = DeleteProductRows(id)
    /\ UNCHANGED <<httpVars, seqProducts, orders, order_items, admin, lines, session,
                   procVars, lock>>

\* edit_product(id), POST
AdminEditProduct(s, id, name, price) ==
    /\ admin_required(s)
    /\ Parses(price)
    /\ lock = NoLock
    /\ products' = UpdateProductRows(id, name, Float(price))
    /\ UNCHANGED <<httpVars, seqProducts, orders, order_items, admin, lines, session,
                   procVars, lock>>

\* JSON bodies of POST /products and PUT /products/<id>
ProductBodies ==
    [keys : SUBSET {"name", "price"}, name : NameInputs, price : PriceInputs]

MutCreateProductStatus(data) ==
    IF "name" \notin data.keys THEN 400
    ELSE IF ~Parses(data.price) THEN 500 ELSE 201

\* create_product(): the status returned
CreateProductStatus(data) ==
    IF data.keys = {} \/ "name" \notin data.keys \/ "price" \notin data.keys
    THEN 400
    ELSE IF ~Parses(data.price) THEN 500 ELSE 201

ApiCreateProduct(data) ==
    /\ CreateProductStatus(data) = 201
    /\ lock = NoLock
    /\ InsertProduct(data.name, Float(data.price))
    /\ UNCHANGED <<httpVars, orders, order_items, admin, lines, session, procVars, lock>>

MutUpdateName(id, data) == data.name

\* update_product(product_id): name and price after data.get(..., product[...])
UpdateName(id, data) ==
    IF "name" \in data.keys THEN data.name ELSE Product(id).name

UpdatePriceParses(id, data) == "price" \in data.keys => Parses(data.price)

UpdatePrice(id, data) ==
    IF "price" \in data.keys THEN Float(data.price) ELSE Product(id).price

UpdateProductStatus(id, data) ==
    IF data.keys = {} THEN 400
    ELSE IF ~HasProduct(id) THEN 404
    ELSE IF ~UpdatePriceParses(id, data) THEN 500 ELSE 200

ApiUpdateProduct(id, data) ==
    /\ UpdateProductStatus(id, data) = 200
    /\ lock = NoLock
    /\ products' = UpdateProductRows(id, UpdateName(id, data), UpdatePrice(id, data))
    /\ UNCHANGED <<httpVars, seqProducts, orders, order_items, admin, lines, session,
                   procVars, lock>>

\* a delete that takes the order items naming the product with it
MutApiDeleteProduct(id) ==
    /\ HasProduct(id)
    /\ lock = NoLock
    /\ products' = DeleteProductRows(id)
    /\ order_items' = SelectSeq(order_items,
                           LAMBDA r : r.product_name # Product(id).name)
    /\ UNCHANGED <<httpVars, seqProducts, orders, admin, lines, session, procVars, lock>>

MutDeleteProductStatus(id) == 200

\* delete_product(product_id) of the API
DeleteProductStatus(id) == IF ~HasProduct(id) THEN 404 ELSE 200

ApiDeleteProduct(id) ==
    /\ DeleteProductStatus(id) = 200
    /\ lock = NoLock
    /\ products' = DeleteProductRows(id)
    /\ UNCHANGED <<httpVars, seqProducts, orders, order_items, admin, lines, session,
                   procVars, lock>>

\* ------------------------------------------------------------- requests
RequiredFields == {"customer_name", "phone", "address", "items"}

\* one element of data['items']: the keys present and their values
Item(product_id, quantity) ==
    [keys |-> {"product_id", "quantity"}, product_id |-> product_id,
     quantity |-> quantity]

WellFormedItems == {Item(1, 2), Item(SeedCount + 1, 1)}

MalformedItems ==
    {[keys |-> {"quantity"}, product_id |-> 0, quantity |-> 1],
     [keys |-> {"product_id"}, product_id |-> 1, quantity |-> 0]}

ItemInputs == WellFormedItems \cup MalformedItems

ItemLists == UNION {[1..n -> ItemInputs] : n \in 0..MaxLines}

\* JSON bodies of POST /orders: complete ones (with or without a total of
\* the client's own), and ones lacking required fields (the empty body too)
OrderBody(keys, items) ==
    [keys |-> keys, customer_name |-> "Ali", phone |-> "+998901234567",
     address |-> "Tashkent", items |-> items, total |-> 1]

OrderBodies ==
    {OrderBody(ks, its) : ks \in {RequiredFields, RequiredFields \cup {"total"}},
                          its \in ItemLists}
    \cup {OrderBody(RequiredFields \ {f}, <<>>) : f \in RequiredFields \ {"items"}}
    \cup {OrderBody(RequiredFields \ {"items"}, <<>>), OrderBody({}, <<>>)}

Response(status, total, id) == [status |-> status, total |-> total, id |-> id]

\* the three kinds of response
Redirect(op, location) ==
    [op |-> op, status |-> 302, location |-> location, body |-> <<>>]
Page(op, status, body) ==
    [op |-> op, status |-> status, location |-> "", body |-> body]

\* what a view function wrapped by track_metrics does: return or raise
Returns(status, body) == [raised |-> FALSE, status |-> status, body |-> body]
Raises == [raised |-> TRUE, status |-> 0, body |-> <<>>]

\* api_requests_total.labels(...).inc()
LabelInc(requests, label) ==
    [l \in DOMAIN requests \cup {label} |->
        IF l = label
        THEN (IF l \in DOMAIN requests THEN requests[l] ELSE 0) + 1
        ELSE requests[l]]

\* track_metrics(endpoint): the label written is '200' whenever the view
\* returns and '500' when it raises; the duration is observed in finally
StatusLabel(r) == IF r.raised THEN "500" ELSE "200"

MutTracked(method, endpoint, r) ==
    IF r.raised THEN metrics
    ELSE [requests |-> LabelInc(metrics.requests, <<method, endpoint, "200">>),
          observations |-> metrics.observations + 1]

Tracked(method, endpoint, r) ==
    [requests |-> LabelInc(metrics.requests, <<method, endpoint, StatusLabel(r)>>),
     observations |-> metrics.observations + 1]

\* the response the wrapper hands back
Wrapped(op, r) ==
    IF r.raised THEN Page(op, 500, <<>>) ELSE Page(op, r.status, r.body)

\* an API call that writes nothing
ApiCall(op, method, endpoint, r) ==
    /\ out' = Wrapped(op, r)
    /\ metrics' = Tracked(method, endpoint, r)

\* the handler returns: the thread holds the response until it is collected
Finish(p, r) ==
    /\ pc' = [pc EXCEPT ![p] = "done"]
    /\ resp' = [resp EXCEPT ![p] = r]
    /\ local' = [local EXCEPT ![p] = NoLocal]

\* create_order returns through track_metrics: a handler that raised is
\* answered 500
FinishApi(p, r) ==
    /\ Finish(p, r)
    /\ metrics' = Tracked("POST", "/orders",
                          IF r.status = 500 THEN Raises ELSE Returns(r.status, <<>>))

\* the response is sent and the thread ends
Return(p) ==
    /\ pc[p] = "done"
    /\ pc' = [pc EXCEPT ![p] = "closed"]
    /\ req' = [req EXCEPT ![p] = NoReq]
    /\ local' = [local EXCEPT ![p] = NoLocal]
    /\ resp' = [resp EXCEPT ![p] = NoResp]
    /\ UNCHANGED <<httpVars, dbVars, session, lock>>

\* ------------------------------------------------------------- create_order
\* not data or not all(field in data for field in required_fields)
MissingFields(data) == data.keys = {} \/ ~(RequiredFields \subseteq data.keys)

MutMalformedItem(item) == "product_id" \notin item.keys

\* 'product_id' not in item or 'quantity' not in item
MalformedItem(item) == "product_id" \notin item.keys \/ "quantity" \notin item.keys

\* lines 243-255: the required-field and empty-list checks
ApiOrderStart(p, data) ==
    /\ pc[p] = "idle"
    /\ req' = [req EXCEPT ![p] = [kind |-> "api", data |-> data]]
    /\ IF MissingFields(data)
       THEN /\ FinishApi(p, Response(400, 0, 0))
       ELSE IF data.items = <<>>
       THEN /\ FinishApi(p, Response(400, 0, 0))
       ELSE /\ pc' = [pc EXCEPT ![p] = "validate"]
            /\ local' = [local EXCEPT ![p] = [NoLocal EXCEPT !.i = 1]]
            /\ UNCHANGED <<resp, metrics>>
    /\ UNCHANGED <<out, dbVars, session, lock>>

MutLineSubtotalNoQty(data, i) == Product(data.items[i].product_id).price

MutLineSubtotalClient(data, i) ==
    IF i = 1 /\ "total" \in data.keys
    THEN data.total
    ELSE Product(data.items[i].product_id).price * data.items[i].quantity

\* product['price'] * item['quantity']
LineSubtotal(data, i) ==
    Product(data.items[i].product_id).price * data.items[i].quantity

\* total = 0, then total += subtotal for each item from the i-th on
RECURSIVE ApiTotalFrom(_, _)
ApiTotalFrom(data, i) ==
    IF i > Len(data.items) THEN 0
    ELSE LineSubtotal(data, i) + ApiTotalFrom(data, i + 1)

\* lines 258-269: one pass of the validation loop
ApiOrderValidate(p) ==
    /\ pc[p] = "validate"
    /\ LET data == req[p].data
           i    == local[p].i
           item == data.items[i]
       IN  IF MalformedItem(item)
           THEN /\ FinishApi(p, Response(400, 0, 0))
           ELSE IF ~HasProduct(item.product_id)
           THEN /\ FinishApi(p, Response(404, 0, 0))
           ELSE /\ local' = [local EXCEPT
                               ![p].total = @ + LineSubtotal(data, i),
                               ![p].i = i + 1]
                /\ pc' = [pc EXCEPT ![p] =
                            IF i = Len(data.items) THEN "insert" ELSE "validate"]
                /\ UNCHANGED <<resp, metrics>>
    /\ UNCHANGED <<out, dbVars, session, lock, req>>

\* the row of INSERT INTO orders
OrderRow(name, phone, address, total) ==
    [customer_name |-> name, phone |-> phone, address |-> address, total |-> total]

\* lines 287-294: the order_items row of line i, from a second product read
ApiItemRow(data, i, order_id) ==
    [order_id     |-> order_id,
     product_name |-> Product(data.items[i].product_id).name,
     quantity     |-> data.items[i].quantity,
     price        |-> Product(data.items[i].product_id).price,
     subtotal     |-> LineSubtotal(data, i)]

\* lines 275-296: INSERT INTO orders opens the transaction and takes SQLite's
\* write lock; until the commit no other connection writes, so the product
\* rows the loop reads again are those of this state.  A product deleted
\* since validation reads as None and product['price'] raises: the wrapper
\* answers 500 and the connection, never committed, rolls back as it closes.
ApiOrderInsert(p) ==
    /\ pc[p] = "insert"
    /\ lock = NoLock
    /\ LET data == req[p].data
           oid  == Len(orders) + 1
       IN  IF \E i \in 1..Len(data.items) : ~HasProduct(data.items[i].product_id)
           THEN /\ FinishApi(p, Response(500, 0, 0))
                /\ UNCHANGED lock
           ELSE /\ local' = [local EXCEPT
                      ![p].order_id = oid,
                      ![p].wOrder = <<OrderRow(data.customer_name, data.phone,
                                               data.address, local[p].total)>>,
                      ![p].wItems = [i \in 1..Len(data.items) |->
                                        ApiItemRow(data, i, oid)]]
                /\ pc' = [pc EXCEPT ![p] = "commit"]
                /\ lock' = p
                /\ UNCHANGED <<resp, metrics>>
    /\ UNCHANGED <<out, dbVars, session, req>>

\* lines 298-310: conn.commit() and the 201 response
ApiOrderCommit(p) ==
    /\ pc[p] = "commit"
    /\ orders' = orders \o local[p].wOrder
    /\ order_items' = order_items \o local[p].wItems
    /\ lines' = Append(lines, Len(req[p].data.items))
    /\ lock' = NoLock
    /\ FinishApi(p, Response(201, local[p].total, local[p].order_id))
    /\ UNCHANGED <<out, products, seqProducts, admin, session, req>>

\* ------------------------------------------------------------- checkout
\* lines 106-117: the cart of the session and the form
CheckoutStart(p, s, name) ==
    /\ pc[p] = "idle"
    /\ req' = [req EXCEPT ![p] = [kind |-> "web", sid |-> s,
                  form |-> [name |-> name, phone |-> "+998901234567",
                            address |-> "Tashkent"]]]
    /\ local' = [local EXCEPT ![p] =
                   [NoLocal EXCEPT !.cart = CartItems(session[s].cart), !.i = 1]]
    /\ pc' = [pc EXCEPT ![p] =
                IF DOMAIN session[s].cart = {} THEN "order" ELSE "read"]
    /\ UNCHANGED <<httpVars, dbVars, session, lock, resp>>

\* line 123: (product["name"], qty, product["price"], subtotal)
CheckoutItem(pid, qty) ==
    [product_name |-> Product(SqlInt(pid)).name, quantity |-> qty,
     price |-> Product(SqlInt(pid)).price,
     subtotal |-> Product(SqlInt(pid)).price * qty]

\* a loop that passes over a line whose product is gone
MutCheckoutRead(p) ==
    /\ pc[p] = "read"
    /\ LET i == local[p].i
           e == local[p].cart[i]
       IN  /\ local' = [local EXCEPT
                  ![p].items = IF HasProduct(SqlInt(e.pid))
                               THEN Append(@, CheckoutItem(e.pid, e.qty)) ELSE @,
                  ![p].total = IF HasProduct(SqlInt(e.pid))
                               THEN @ + CheckoutItem(e.pid, e.qty).subtotal ELSE @,
                  ![p].i = i + 1]
           /\ pc' = [pc EXCEPT ![p] =
                       IF i = Len(local[p].cart) THEN "order" ELSE "read"]
           /\ UNCHANGED resp
    /\ UNCHANGED <<httpVars, dbVars, session, lock, req>>

\* lines 119-123: one pass of the loop over the cart; a product that is gone
\* reads as None and product["price"] raises (500)
CheckoutRead(p) ==
    /\ pc[p] = "read"
    /\ LET i == local[p].i
           e == local[p].cart[i]
       IN  IF ~HasProduct(SqlInt(e.pid))
           THEN /\ Finish(p, Response(500, 0, 0))
           ELSE /\ local' = [local EXCEPT
                      ![p].items = Append(@, CheckoutItem(e.pid, e.qty)),
                      ![p].total = @ + CheckoutItem(e.pid, e.qty).subtotal,
                      ![p].i = i + 1]
                /\ pc' = [pc EXCEPT ![p] =
                            IF i = Len(local[p].cart) THEN "order" ELSE "read"]
                /\ UNCHANGED resp
    /\ UNCHANGED <<httpVars, dbVars, session, lock, req>>

\* lines 126-132: INSERT INTO orders, commit, last_insert_rowid()
CheckoutInsertOrder(p) ==
    /\ pc[p] = "order"
    /\ lock = NoLock
    /\ orders' = Append(orders, OrderRow(req[p].form.name, req[p].form.phone,
                                         req[p].form.address, local[p].total))
    /\ lines' = Append(lines, Len(local[p].cart))
    /\ local' = [local EXCEPT ![p].order_id = Len(orders) + 1]
    /\ pc' = [pc EXCEPT ![p] = "items"]
    /\ UNCHANGED <<httpVars, products, seqProducts, order_items, admin, session, lock,
                   req, resp>>

MutCheckoutItemRows(items, order_id) ==
    [i \in 1..(IF items = <<>> THEN 0 ELSE 1) |->
        [order_id     |-> order_id,
         product_name |-> items[i].product_name,
         quantity     |-> items[i].quantity,
         price        |-> items[i].price,
         subtotal     |-> items[i].subtotal]]

\* item rows filed under the newest order of the table
MutCheckoutItemRowsNewest(items, order_id) ==
    [i \in 1..Len(items) |->
        [order_id     |-> Len(orders),
         product_name |-> items[i].product_name,
         quantity     |-> items[i].quantity,
         price        |-> items[i].price,
         subtotal     |-> items[i].subtotal]]

\* lines 135-139: the order_items rows of the saved tuples
CheckoutItemRows(items, order_id) ==
    [i \in 1..Len(items) |->
        [order_id     |-> order_id,
         product_name |-> items[i].product_name,
         quantity     |-> items[i].quantity,
         price        |-> items[i].price,
         subtotal     |-> items[i].subtotal]]

\* lines 135-146: the item rows, the second commit, the cart cleared
CheckoutInsertItems(p) ==
    /\ pc[p] = "items"
    /\ lock = NoLock \/ local[p].items = <<>>
    /\ order_items' = order_items \o CheckoutItemRows(local[p].items,
                                                      local[p].order_id)
    /\ session' = [session EXCEPT ![req[p].sid].cart = EmptyCart]
    /\ Finish(p, Response(200, local[p].total, local[p].order_id))
    /\ UNCHANGED <<httpVars, products, seqProducts, orders, admin, lines, lock, req>>

\* sqlite3.connect() waits five seconds for the write lock another connection
\* holds, then the statement raises OperationalError: the handler ends with
\* what it has committed so far
LockTimeout(p) ==
    /\ \/ pc[p] \in {"insert", "order"}
       \/ pc[p] = "items" /\ local[p].items # <<>>
    /\ lock \notin {NoLock, p}
    /\ IF pc[p] = "insert"
       THEN FinishApi(p, Response(500, 0, 0))
       ELSE Finish(p, Response(500, 0, 0)) /\ UNCHANGED metrics
    /\ UNCHANGED <<out, dbVars, session, lock, req>>

\* ------------------------------------------------------------- bounds in use
\* the threads are interchangeable: the next request takes the lowest free one
Free(p) == \A q \in Procs : q < p => pc[q] # "idle"
CartRoom(s, pid) == CartGet(session[s].cart, Str(pid)) < MaxCartQty
CreateRoom == seqProducts < SeedCount + MaxCreates

\* ------------------------------------------------- requests running together
\* Spec: every handler, the order creations of two threads interleaved with
\* each other and with every other request, on one product and short lists.
ConcPids == {1}
ConcItems == {Item(1, 2)}
ConcBodies ==
    {OrderBody(RequiredFields, its) :
        its \in UNION {[1..n -> ConcItems] : n \in 0..MaxLines}}
    \cup {OrderBody(RequiredFields \ {"phone"}, <<>>)}
ConcPrices == {[num |-> TRUE, val |-> 7]}
ConcProductBodies == [keys : {{"name", "price"}, {"price"}}, name : NameInputs,
                      price : ConcPrices]

Next ==
    \/ \E s \in Sessions, pid \in ConcPids : CartRoom(s, pid) /\ AddToCart(s, pid)
    \/ \E s \in Sessions, pid \in ConcPids, qty \in CartQtyInputs :
           UpdateQty(s, pid, qty)
    \/ \E s \in Sessions, cred \in Logins : AdminLogin(s, cred)
    \/ \E s \in Sessions, name \in NameInputs, price \in ConcPrices :
           CreateRoom /\ AdminAddProduct(s, name, price)
    \/ \E s \in Sessions, id \in ConcPids : AdminDeleteProduct(s, id)
    \/ \E s \in Sessions, id \in ConcPids, name \in NameInputs,
          price \in ConcPrices : AdminEditProduct(s, id, name, price)
    \/ \E data \in ConcProductBodies : CreateRoom /\ ApiCreateProduct(data)
    \/ \E id \in ConcPids, data \in ConcProductBodies : ApiUpdateProduct(id, data)
    \/ \E id \in ConcPids : ApiDeleteProduct(id)
    \/ \E p \in Procs, data \in ConcBodies : Free(p) /\ ApiOrderStart(p, data)
    \/ \E p \in Procs : ApiOrderValidate(p)
    \/ \E p \in Procs : ApiOrderInsert(p)
    \/ \E p \in Procs : ApiOrderCommit(p)
    \/ \E p \in Procs, s \in Sessions, name \in Customers :
           Free(p) /\ CheckoutStart(p, s, name)
    \/ \E p \in Procs : CheckoutRead(p)
    \/ \E p \in Procs : CheckoutInsertOrder(p)
    \/ \E p \in Procs : CheckoutInsertItems(p)
    \/ \E p \in Procs : LockTimeout(p)
    \/ \E p \in Procs : Return(p)

Spec == Init /\ [][Next]_vars

\* ------------------------------------------------- requests one at a time
\* SpecSerial: every request runs to its response before the next one starts
\* (no other request interleaved); one order creation in a run, with every
\* request body and every catalog input.
Quiet == \A q \in Procs : pc[q] \in {"idle", "closed"}
SerialProcs == {1}

NextSerial ==
    \/ \E s \in Sessions, pid \in PidInputs :
           Quiet /\ CartRoom(s, pid) /\ AddToCart(s, pid)
    \/ \E s \in Sessions, pid \in PidInputs, qty \in CartQtyInputs :
           Quiet /\ UpdateQty(s, pid, qty)
    \/ \E s \in Sessions, cred \in Logins : Quiet /\ AdminLogin(s, cred)
    \/ \E s \in Sessions, name \in NameInputs, price \in PriceInputs :
           Quiet /\ CreateRoom /\ AdminAddProduct(s, name, price)
    \/ \E s \in Sessions, id \in PidInputs : Quiet /\ AdminDeleteProduct(s, id)
    \/ \E s \in Sessions, id \in PidInputs, name \in NameInputs,
          price \in PriceInputs : Quiet /\ AdminEditProduct(s, id, name, price)
    \/ \E data \in ProductBodies : Quiet /\ CreateRoom /\ ApiCreateProduct(data)
    \/ \E id \in PidInputs, data \in ProductBodies :
           Quiet /\ ApiUpdateProduct(id, data)
    \/ \E id \in PidInputs : Quiet /\ ApiDeleteProduct(id)
    \/ \E p \in SerialProcs, data \in OrderBodies : ApiOrderStart(p, data)
    \/ \E p \in SerialProcs : ApiOrderValidate(p)
    \/ \E p \in SerialProcs : ApiOrderInsert(p)
    \/ \E p \in SerialProcs : ApiOrderCommit(p)
    \/ \E p \in SerialProcs, s \in Sessions, name \in Customers :
           CheckoutStart(p, s, name)
    \/ \E p \in SerialProcs : CheckoutRead(p)
    \/ \E p \in SerialProcs : CheckoutInsertOrder(p)
    \/ \E p \in SerialProcs : CheckoutInsertItems(p)
    \/ \E p \in SerialProcs : Return(p)

SpecSerial == Init /\ [][NextSerial]_vars

\* ===================================================================== claims
Cart(s) == session[s].cart
OtherEntriesKept(s, key) ==
    /\ DOMAIN Cart(s)' \ {key} = DOMAIN Cart(s) \ {key}
    /\ \A k \in DOMAIN Cart(s) \ {key} : Cart(s)'[k] = Cart(s)[k]

\* C9: add(session, pid) inserts quantity 1 when pid is absent from the cart
\* and otherwise increments its quantity by exactly 1, leaving every other
\* entry as it was; so N adds from a cart without pid yield quantity N.
C9_AddIncrementsByOne ==
    [][\A s \in Sessions, pid \in PidInputs :
         AddToCart(s, pid) =>
            /\ Str(pid) \in DOMAIN Cart(s)'
            /\ Cart(s)'[Str(pid)] =
                  IF Str(pid) \in DOMAIN Cart(s) THEN Cart(s)[Str(pid)] + 1 ELSE 1
            /\ OtherEntriesKept(s, Str(pid))]_vars

\* two adds of product 1 and one of product 6 have happened
C9_Witness ==
    \E s \in Sessions :
        /\ DOMAIN Cart(s) = {Str(1), Str(SeedCount + 1)}
        /\ Cart(s)[Str(1)] = 2
        /\ Cart(s)[Str(SeedCount + 1)] = 1

\* C10: setQuantity(session, pid, qty) removes the entry of pid when qty <= 0
\* (a no-op when pid was absent) and otherwise sets the quantity to exactly
\* qty whatever it was before; after a removal the cart view holds no line of
\* that product.  Every other entry stays as it was.
C10_SetQuantityExact ==
    [][\A s \in Sessions, pid \in PidInputs, qty \in CartQtyInputs :
         UpdateQty(s, pid, qty) =>
            /\ OtherEntriesKept(s, Str(pid))
            /\ qty <= 0 =>
                 /\ Str(pid) \notin DOMAIN Cart(s)'
                 /\ Str(pid) \notin DOMAIN Cart(s) => Cart(s)' = Cart(s)
                 /\ CartViewOk(Cart(s)') =>
                       \A i \in 1..Len(CartView(Cart(s)')) :
                           CartView(Cart(s)')[i].id # pid
            /\ qty > 0 =>
                 /\ Str(pid) \in DOMAIN Cart(s)'
                 /\ Cart(s)'[Str(pid)] = qty]_vars

\* product 1 was set to quantity 2 and the cart still views another product
C10_Witness ==
    \E s \in Sessions :
        /\ Str(1) \in DOMAIN Cart(s) /\ Cart(s)[Str(1)] = 2
        /\ Str(SeedCount + 1) \in DOMAIN Cart(s)
        /\ CartViewOk(Cart(s))
        /\ Len(CartView(Cart(s))) = 2

\* ------------------------------------------------- one-step handlers, whole
RECURSIVE MutAscending(_)
MutAscending(S) ==
    IF S = {} THEN <<>>
    ELSE LET k == CHOOSE x \in S : \A y \in S : x >= y
         IN  <<k>> \o MutAscending(S \ {k})

\* the ids of a table in ascending order
RECURSIVE Ascending(_)
Ascending(S) ==
    IF S = {} THEN <<>>
    ELSE LET k == CHOOSE x \in S : \A y \in S : x <= y
         IN  <<k>> \o Ascending(S \ {k})

MutProductJson(id) == [id |-> id, name |-> Product(id).name, price |-> 0]

\* the JSON object of one product row
ProductJson(id) == [id |-> id, name |-> Product(id).name, price |-> Product(id).price]

\* get_products()
GetApiProducts ==
    /\ ApiCall("get_products", "GET", "/products",
               Returns(200, [i \in 1..Cardinality(DOMAIN products) |->
                                ProductJson(Ascending(DOMAIN products)[i])]))
    /\ UNCHANGED <<dbVars, session, lock, procVars>>

\* get_product(product_id)
GetApiProduct(id) ==
    /\ ApiCall("get_product", "GET", "/products/<id>",
               IF ~HasProduct(id) THEN Returns(404, <<>>)
               ELSE Returns(200, <<ProductJson(id)>>))
    /\ UNCHANGED <<dbVars, session, lock, procVars>>

\* create_product(), whole
PostApiProducts(data) ==
    LET st == CreateProductStatus(data)
    IN  /\ st = 201 => lock = NoLock
        /\ IF st = 201
           THEN InsertProduct(data.name, Float(data.price))
           ELSE UNCHANGED <<products, seqProducts>>
        /\ ApiCall("create_product", "POST", "/products",
                   IF st = 500 THEN Raises
                   ELSE IF st = 400 THEN Returns(400, <<>>)
                   ELSE Returns(201, <<[id |-> seqProducts + 1, name |-> data.name,
                                        price |-> Float(data.price)]>>))
        /\ UNCHANGED <<orders, order_items, admin, lines, session, lock, procVars>>

\* update_product(product_id), whole
PutApiProduct(id, data) ==
    LET st == UpdateProductStatus(id, data)
    IN  /\ st = 200 => lock = NoLock
        /\ products' = IF st = 200
                       THEN UpdateProductRows(id, UpdateName(id, data),
                                              UpdatePrice(id, data))
                       ELSE products
        /\ ApiCall("update_product", "PUT", "/products/<id>",
                   IF st = 500 THEN Raises
                   ELSE IF st = 200
                   THEN Returns(200, <<[id |-> id, name |-> UpdateName(id, data),
                                        price |-> UpdatePrice(id, data)]>>)
                   ELSE Returns(st, <<>>))
        /\ UNCHANGED <<seqProducts, orders, order_items, admin, lines, session,
                       lock, procVars>>

\* delete_product(product_id) of the API, whole
DeleteApiProduct(id) ==
    LET st == DeleteProductStatus(id)
    IN  /\ st = 200 => lock = NoLock
        /\ products' = IF st = 200 THEN DeleteProductRows(id) ELSE products
        /\ ApiCall("delete_product", "DELETE", "/products/<id>", Returns(st, <<>>))
        /\ UNCHANGED <<seqProducts, orders, order_items, admin, lines, session,
                       lock, procVars>>

\* SELECT * FROM order_items WHERE order_id=?
OrderJson(id) ==
    [id |-> id, customer_name |-> orders[id].customer_name,
     phone |-> orders[id].phone, address |-> orders[id].address,
     total |-> orders[id].total,
     items |-> SelectSeq(order_items, LAMBDA r : r.order_id = id)]

\* SELECT * FROM orders ORDER BY id DESC
OrdersDesc == [i \in 1..Len(orders) |-> Len(orders) + 1 - i]

\* get_orders()
GetApiOrders ==
    /\ ApiCall("get_orders", "GET", "/orders",
               Returns(200, [i \in 1..Len(orders) |-> OrderJson(OrdersDesc[i])]))
    /\ UNCHANGED <<dbVars, session, lock, procVars>>

\* get_order(order_id)
GetApiOrder(id) ==
    /\ ApiCall("get_order", "GET", "/orders/<id>",
               IF id \notin 1..Len(orders) THEN Returns(404, <<>>)
               ELSE Returns(200, <<OrderJson(id)>>))
    /\ UNCHANGED <<dbVars, session, lock, procVars>>

MutLoginFound(cred) == \E a \in AdminRows(admin) : a.username = cred.username

\* SELECT * FROM admin WHERE username=? AND password=?
LoginFound(cred) ==
    \E a \in AdminRows(admin) : a.username = cred.username /\ a.password = cred.password

\* admin_login(), POST, whole
PostAdminLogin(s, cred) ==
    LET found == LoginFound(cred)
    IN  /\ session' = IF found THEN [session EXCEPT ![s].admin = TRUE] ELSE session
        /\ out' = IF found THEN Redirect("admin_login", "/admin/dashboard")
                  ELSE Page("admin_login", 200, <<"Invalid login">>)
        /\ UNCHANGED <<dbVars, lock, procVars, metrics>>

\* add_product(), POST, whole: float() of a text that is no number raises
\* ValueError, which nothing catches (500)
PostAdminProductsAdd(s, name, price) ==
    /\ (admin_required(s) /\ Parses(price)) => lock = NoLock
    /\ IF admin_required(s) /\ Parses(price)
       THEN InsertProduct(name, Float(price))
       ELSE UNCHANGED <<products, seqProducts>>
    /\ out' = IF ~admin_required(s) THEN Redirect("add_product", "/admin/login")
              ELSE IF ~Parses(price) THEN Page("add_product", 500, <<>>)
              ELSE Redirect("add_product", "/admin/products")
    /\ UNCHANGED <<orders, order_items, admin, lines, session, lock, procVars,
                   metrics>>

\* delete_product(id) of the admin panel, whole
GetAdminProductsDelete(s, id) ==
    /\ admin_required(s) => lock = NoLock
    /\ products' = IF admin_required(s) THEN DeleteProductRows(id) ELSE products
    /\ out' = IF ~admin_required(s)
              THEN Redirect("admin_delete_product", "/admin/login")
              ELSE Redirect("admin_delete_product", "/admin/products")
    /\ UNCHANGED <<seqProducts, orders, order_items, admin, lines, session, lock,
                   procVars, metrics>>

\* edit_product(id), POST, whole
PostAdminProductsEdit(s, id, name, price) ==
    /\ (admin_required(s) /\ Parses(price)) => lock = NoLock
    /\ products' = IF admin_required(s) /\ Parses(price)
                   THEN UpdateProductRows(id, name, Float(price))
                   ELSE products
    /\ out' = IF ~admin_required(s) THEN Redirect("edit_product", "/admin/login")
              ELSE IF ~Parses(price) THEN Page("edit_product", 500, <<>>)
              ELSE Redirect("edit_product", "/admin/products")
    /\ UNCHANGED <<seqProducts, orders, order_items, admin, lines, session, lock,
                   procVars, metrics>>

\* admin_orders(): the page lists the orders, newest first
GetAdminOrders(s) ==
    /\ out' = IF ~admin_required(s) THEN Redirect("admin_orders", "/admin/login")
              ELSE Page("admin_orders", 200,
                        [i \in 1..Len(orders) |-> orders[OrdersDesc[i]]])
    /\ UNCHANGED <<dbVars, session, lock, procVars, metrics>>

\* ------------------------------------------------- the one-step handlers
\* SpecHttp: every request runs to its response before the next one starts;
\* the catalog, login and order-listing handlers whole, and one order
\* creation (web checkout or create_order) to have orders to list.
MaxCalls == 2   \* API calls in a run

HttpPrices == PriceInputs \cup {[num |-> TRUE, val |-> -1]}
HttpProductBodies ==
    [keys : SUBSET {"name", "price"}, name : NameInputs, price : HttpPrices]
HttpOrderBodies ==
    {OrderBody(RequiredFields, <<Item(1, 2)>>),
     OrderBody(RequiredFields \ {"phone"}, <<>>)}
OrderIdInputs == {1, 2}
CallRoom == metrics.observations < MaxCalls

NextHttp ==
    \/ \E s \in Sessions :
           Quiet /\ session[s].cart = EmptyCart /\ AddToCart(s, 1)
    \/ \E p \in SerialProcs, s \in Sessions, name \in Customers :
           CheckoutStart(p, s, name)
    \/ \E p \in SerialProcs : CheckoutRead(p)
    \/ \E p \in SerialProcs : CheckoutInsertOrder(p)
    \/ \E p \in SerialProcs : CheckoutInsertItems(p)
    \/ \E p \in SerialProcs, data \in HttpOrderBodies :
           CallRoom /\ ApiOrderStart(p, data)
    \/ \E p \in SerialProcs : ApiOrderValidate(p)
    \/ \E p \in SerialProcs : ApiOrderInsert(p)
    \/ \E p \in SerialProcs : ApiOrderCommit(p)
    \/ \E p \in SerialProcs : Return(p)
    \/ \E s \in Sessions, cred \in Logins : Quiet /\ PostAdminLogin(s, cred)
    \/ \E s \in Sessions, name \in NameInputs, price \in PriceInputs :
           Quiet /\ CreateRoom /\ PostAdminProductsAdd(s, name, price)
    \/ \E s \in Sessions, id \in PidInputs : Quiet /\ GetAdminProductsDelete(s, id)
    \/ \E s \in Sessions, id \in PidInputs, name \in NameInputs,
          price \in PriceInputs : Quiet /\ PostAdminProductsEdit(s, id, name, price)
    \/ \E s \in Sessions : Quiet /\ GetAdminOrders(s)
    \/ Quiet /\ CallRoom /\ GetApiProducts
    \/ \E id \in PidInputs : Quiet /\ CallRoom /\ GetApiProduct(id)
    \/ \E data \in HttpProductBodies :
           Quiet /\ CallRoom /\ CreateRoom /\ PostApiProducts(data)
    \/ \E id \in PidInputs, data \in ProductBodies :
           Quiet /\ CallRoom /\ PutApiProduct(id, data)
    \/ \E id \in PidInputs : Quiet /\ CallRoom /\ DeleteApiProduct(id)
    \/ Quiet /\ CallRoom /\ GetApiOrders
    \/ \E id \in OrderIdInputs : Quiet /\ CallRoom /\ GetApiOrder(id)

SpecHttp == Init /\ [][NextHttp]_vars

\* ------------------------------------------------------------- startup
\* SpecStartup: the store from before the first start of the process. Every
\* start runs create_tables; between starts, requests empty and fill the
\* products table, so that a later start finds it empty, partly filled or as
\* seeded.
MaxSeedings == 2

\* the store file before create_tables has ever run
InitEmpty ==
    /\ products = <<>>
    /\ seqProducts = 0
    /\ orders = <<>>
    /\ order_items = <<>>
    /\ admin = <<>>
    /\ session = [s \in Sessions |-> [cart |-> EmptyCart, admin |-> FALSE]]
    /\ lock = NoLock
    /\ pc = [p \in Procs |-> "idle"]
    /\ req = [p \in Procs |-> NoReq]
    /\ local = [p \in Procs |-> NoLocal]
    /\ resp = [p \in Procs |-> NoResp]
    /\ lines = <<>>
    /\ out = NoOut
    /\ metrics = NoMetrics

MutCountProducts == Cardinality(DOMAIN products \ DOMAIN products)

\* SELECT COUNT(*) FROM admin, SELECT COUNT(*) FROM products
CountAdmin == Len(admin)
CountProducts == Cardinality(DOMAIN products)

\* the five INSERTs of the demo products: AUTOINCREMENT gives them the ids
\* after the last one handed out
SeedRows(base) ==
    [k \in (base + 1)..(base + SeedCount) |-> SeedProducts[k - base]]

\* create_tables()
create_tables ==
    /\ admin' = IF CountAdmin = 0 THEN admin \o SeedAdmin ELSE admin
    /\ IF CountProducts = 0
       THEN /\ products' = SeedRows(seqProducts) @@ products
            /\ seqProducts' = seqProducts + SeedCount
       ELSE UNCHANGED <<products, seqProducts>>

\* a start of the process: app.py runs create_tables() on import, before any
\* request is served; the registry of the new process is empty
Startup ==
    /\ create_tables
    /\ metrics' = NoMetrics
    /\ UNCHANGED <<orders, order_items, lines, session, lock, procVars, out>>

\* the tables exist: the process has started at least once
Started == CountAdmin > 0

StartupPids == 1..(MaxSeedings * SeedCount + MaxCreates)
SeedRoom == seqProducts <= (MaxSeedings - 1) * SeedCount + MaxCreates

NextStartup ==
    \/ (CountProducts = 0 => SeedRoom) /\ Startup
    \/ \E id \in StartupPids : Started /\ ApiDeleteProduct(id)
    \/ \E data \in ProductBodies : Started /\ CreateRoom /\ ApiCreateProduct(data)
    \/ Started /\ CallRoom /\ GetApiProducts

SpecStartup == InitEmpty /\ [][NextStartup]_vars

\* ------------------------------------------------------------- cart page
\* total += subtotal over the lines of the page
RECURSIVE SumSubtotalsOf(_)
SumSubtotalsOf(items) ==
    IF items = <<>> THEN 0 ELSE items[1].subtotal + SumSubtotalsOf(Tail(items))

\* cart(), whole: product["price"] on a row that is gone raises TypeError and
\* the request is answered 500
GetCart(s) ==
    /\ out' = IF CartViewOk(session[s].cart)
              THEN Page("cart", 200,
                        <<[items |-> CartView(session[s].cart),
                           total |-> SumSubtotalsOf(CartView(session[s].cart))]>>)
              ELSE Page("cart", 500, <<>>)
    /\ UNCHANGED <<dbVars, session, lock, procVars, metrics>>

\* SpecCart: one session's cart over the last demo product and the first
\* product created later, with the catalog changing under it; the cart page
\* and the web checkout read it, and an order comes in through the API with
\* a quantity of the client's choosing.
CartPids == {SeedCount, SeedCount + 1}
CartProductBodies == [keys : {{"name", "price"}}, name : NameInputs, price : ConcPrices]
CartPriceBodies == [keys : {{"price"}}, name : NameInputs, price : ConcPrices]
CartOrderQtys == {-1, 2}
CartOrderBodies ==
    {OrderBody(RequiredFields, <<Item(SeedCount, q)>>) : q \in CartOrderQtys}

NextCart ==
    \/ \E s \in Sessions, pid \in CartPids :
           Quiet /\ CartRoom(s, pid) /\ AddToCart(s, pid)
    \/ \E s \in Sessions, pid \in CartPids, qty \in CartQtyInputs :
           Quiet /\ UpdateQty(s, pid, qty)
    \/ \E data \in CartProductBodies : Quiet /\ CreateRoom /\ ApiCreateProduct(data)
    \/ \E data \in CartPriceBodies : Quiet /\ ApiUpdateProduct(SeedCount, data)
    \/ \E id \in CartPids : Quiet /\ ApiDeleteProduct(id)
    \/ \E s \in Sessions : Quiet /\ GetCart(s)
    \/ \E p \in SerialProcs, s \in Sessions, name \in Customers :
           CheckoutStart(p, s, name)
    \/ \E p \in SerialProcs : CheckoutRead(p)
    \/ \E p \in SerialProcs : CheckoutInsertOrder(p)
    \/ \E p \in SerialProcs : CheckoutInsertItems(p)
    \/ \E p \in SerialProcs, data \in CartOrderBodies : ApiOrderStart(p, data)
    \/ \E p \in SerialProcs : ApiOrderValidate(p)
    \/ \E p \in SerialProcs : ApiOrderInsert(p)
    \/ \E p \in SerialProcs : ApiOrderCommit(p)
    \/ \E p \in SerialProcs : Return(p)

SpecCart == Init /\ [][NextCart]_vars

\* ------------------------------------------------------------- product API
\* SpecCatalog: the product routes of the API alone, called one after another
\* on the first product created after the seed: long enough a run for a
\* create, an update and a delete, each followed by a get.
MaxRoundTrip == 6

CatalogRoom == metrics.observations < MaxRoundTrip
CatalogPids == {SeedCount + 1}
CatalogUpdateBodies ==
    [keys : {{"name", "price"}, {"price"}}, name : NameInputs,
     price : {[num |-> TRUE, val |-> 9]}]

NextCatalog ==
    \/ \E data \in CartProductBodies :
           CatalogRoom /\ CreateRoom /\ PostApiProducts(data)
    \/ \E id \in CatalogPids : CatalogRoom /\ GetApiProduct(id)
    \/ \E id \in CatalogPids, data \in CatalogUpdateBodies :
           CatalogRoom /\ PutApiProduct(id, data)
    \/ \E id \in CatalogPids : CatalogRoom /\ DeleteApiProduct(id)

SpecCatalog == Init /\ [][NextCatalog]_vars

\* ------------------------------------------------------------- order claims
\* the lines of a request as (product id, quantity) pairs
ApiLines(data) ==
    [i \in 1..Len(data.items) |->
        [pid |-> data.items[i].product_id, qty |-> data.items[i].quantity]]

WebLines(cart) ==
    [i \in 1..Len(cart) |-> [pid |-> SqlInt(cart[i].pid), qty |-> cart[i].qty]]

\* sum over the lines of quantity x the product's current price
RECURSIVE SumLines(_)
SumLines(ls) ==
    IF ls = <<>> THEN 0
    ELSE ls[1].qty * Product(ls[1].pid).price + SumLines(Tail(ls))

\* an item without a product_id or without a quantity
LacksKey(item) == {"product_id", "quantity"} \ item.keys # {}

ApiStarts(p) == pc[p] = "idle" /\ pc'[p] # "idle" /\ req'[p].kind = "api"
ApiCreates(p) == pc[p] = "commit" /\ pc'[p] = "done"
WebCreates(p) == pc[p] = "items" /\ pc'[p] = "done" /\ resp'[p].status = 200
TablesKept == orders' = orders /\ order_items' = order_items

\* C1: for every order created successfully, by the web checkout or by
\* POST /api/v1/orders, with no other request interleaved, the persisted total
\* (and the total the API returns) equals the sum over the request's lines of
\* quantity x the product's price at the time of creation.
C1_TotalIsSumOfLines ==
    [][\A p \in Procs :
         /\ ApiCreates(p) =>
               /\ resp'[p].status = 201
               /\ resp'[p].total = SumLines(ApiLines(req[p].data))
               /\ Len(orders') = Len(orders) + 1
               /\ orders'[resp'[p].id].total = SumLines(ApiLines(req[p].data))
         /\ WebCreates(p) =>
               /\ local[p].order_id \in 1..Len(orders')
               /\ orders'[local[p].order_id].total =
                     SumLines(WebLines(local[p].cart))]_vars

\* an API order of two lines on two different products was created
C1_Witness ==
    \E p \in Procs :
        /\ pc[p] = "done" /\ req[p].kind = "api" /\ resp[p].status = 201
        /\ Len(req[p].data.items) = 2
        /\ req[p].data.items[1].product_id # req[p].data.items[2].product_id
        /\ orders[resp[p].id].total = resp[p].total

WellFormedBody(data) ==
    /\ ~MissingFields(data)
    /\ data.items # <<>>
    /\ \A i \in 1..Len(data.items) : ~LacksKey(data.items[i])

NamesUnknown(data) ==
    \E i \in 1..Len(data.items) : ~HasProduct(data.items[i].product_id)

NamesUnknownInCart(cart) ==
    \E i \in 1..Len(cart) : ~HasProduct(SqlInt(cart[i].pid))

\* POST /api/v1/orders, well-formed, with a line on a product that is absent
ApiUnknownRejected(p) ==
    /\ (ApiStarts(p) /\ WellFormedBody(req'[p].data)
           /\ NamesUnknown(req'[p].data)) =>
          TablesKept /\ pc'[p] = "validate"
    /\ (pc[p] = "validate" /\ WellFormedBody(req[p].data)
           /\ NamesUnknown(req[p].data)) =>
          /\ TablesKept
          /\ pc'[p] \in {"validate", "done"}
          /\ pc'[p] = "done" => resp'[p].status = 404

\* the web checkout of a cart with an entry on a product that is absent
WebUnknownRejected(p) ==
    (pc[p] = "read" /\ NamesUnknownInCart(local[p].cart)) =>
        /\ TablesKept
        /\ pc'[p] \in {"read", "done"}
        /\ pc'[p] = "done" => resp'[p].status = 404

\* C2: an order creation request (API or web checkout) in which any line
\* names a product id that does not exist fails as not found (404) and adds
\* no row to orders and none to order_items, whatever the position of the
\* offending line and even if earlier lines were valid.
C2_UnknownProductNotFound ==
    [][\A p \in Procs : ApiUnknownRejected(p) /\ WebUnknownRejected(p)]_vars

\* the API half of C2 alone
C2_ApiUnknownProductNoRows == [][\A p \in Procs : ApiUnknownRejected(p)]_vars

\* a request whose second line names a missing product, after a valid first
\* line, was answered 404 with the tables empty
C2_ApiWitness ==
    \E p \in Procs :
        /\ pc[p] = "done" /\ req[p].kind = "api" /\ resp[p].status = 404
        /\ Len(req[p].data.items) = 2
        /\ HasProduct(req[p].data.items[1].product_id)
        /\ ~HasProduct(req[p].data.items[2].product_id)
        /\ orders = <<>> /\ order_items = <<>>

ItemsOf(o) == {k \in 1..Len(order_items) : order_items[k].order_id = o}

\* the request that wrote order o is still between its two commits
BeingWritten(o) ==
    \E p \in Procs : pc[p] = "items" /\ local[p].order_id = o

\* C3: in every reachable state, also after an order creation that failed at
\* some step, each persisted order row is accompanied by exactly one order
\* item row per line of the request that created it (read here of the orders
\* whose request has ended, which the claim includes).
C3_OrdersHaveAllItems ==
    \A o \in 1..Len(orders) :
        ~BeingWritten(o) => Cardinality(ItemsOf(o)) = lines[o]

RECURSIVE SumSubtotals(_)
SumSubtotals(ks) ==
    IF ks = {} THEN 0
    ELSE LET k == CHOOSE x \in ks : TRUE
         IN  order_items[k].subtotal + SumSubtotals(ks \ {k})

\* C4: for every persisted order (with its items written), the stored total
\* equals the sum of the subtotals of its order items and each item's subtotal
\* equals its quantity x its stored unit price, also when a price update of
\* another request falls between the steps of the order's creation.
C4_OrderRowsConsistent ==
    \A o \in 1..Len(orders) :
        Cardinality(ItemsOf(o)) = lines[o] =>
            /\ orders[o].total = SumSubtotals(ItemsOf(o))
            /\ \A k \in ItemsOf(o) :
                  order_items[k].subtotal =
                      order_items[k].quantity * order_items[k].price

\* C5: creating an order with an empty line list (an empty items array in the
\* API, an empty session cart in the web checkout POST) always fails with a
\* validation error and persists no order row.
C5_EmptyListRejected ==
    /\ \A o \in 1..Len(orders) : lines[o] > 0
    /\ \A p \in Procs :
          (pc[p] = "done" /\ req[p].kind = "api" /\ ~MissingFields(req[p].data)
              /\ req[p].data.items = <<>>) => resp[p].status = 400

HasMalformed(data) ==
    \E j \in 1..Len(data.items) : LacksKey(data.items[j])

FirstMalformed(data) ==
    CHOOSE j \in 1..Len(data.items) :
        /\ LacksKey(data.items[j])
        /\ \A k \in 1..(j - 1) : ~LacksKey(data.items[k])

UnknownBeforeMalformed(data) ==
    \E k \in 1..(FirstMalformed(data) - 1) : ~HasProduct(data.items[k].product_id)

C7_OrdersImmutable ==
    [][/\ \A o \in 1..Len(orders) : o <= Len(orders') /\ orders'[o] = orders[o]
       /\ \A k \in 1..Len(order_items) :
             k <= Len(order_items') /\ order_items'[k] = order_items[k]]_vars

\* an order item still names the seeded product 1 after that product was
\* deleted, and another after its name and price were changed
C7_Witness ==
    /\ \E k \in 1..Len(order_items) :
          /\ order_items[k].product_name = SeedProducts[1].name
          /\ order_items[k].price = SeedProducts[1].price
          /\ Cardinality(ItemsOf(order_items[k].order_id)) =
                lines[order_items[k].order_id]
    /\ ~HasProduct(1)

\* C8: the total persisted and returned by POST /api/v1/orders depends only
\* on the items' product ids and quantities and the current prices: every body
\* with the same items (a client-supplied total added or removed) would get
\* the total this request got.
C8_TotalIgnoresOtherFields ==
    [][\A p \in Procs :
         ApiCreates(p) =>
            \A d \in OrderBodies :
               (~MissingFields(d) /\ d.items = req[p].data.items) =>
                   /\ ApiTotalFrom(d, 1) = resp'[p].total
                   /\ ApiTotalFrom(d, 1) = orders'[resp'[p].id].total]_vars

\* an order was created from a body carrying a total of its own, which the
\* response does not repeat
C8_Witness ==
    \E p \in Procs :
        /\ pc[p] = "done" /\ req[p].kind = "api" /\ resp[p].status = 201
        /\ "total" \in req[p].data.keys
        /\ resp[p].total # req[p].data.total
        /\ orders[resp[p].id].total = resp[p].total

\* ------------------------------------------------------------- cart claims
\* C11: in every reachable state every entry of a session's cart has a
\* positive integer quantity; none is stored with quantity zero or below.
C11_CartQuantitiesPositive ==
    \A s \in Sessions : \A k \in DOMAIN Cart(s) : Cart(s)[k] \in Nat \ {0}

\* after a checkout has emptied the cart, it holds two entries again, one of
\* them set to a quantity above one
C11_Witness ==
    \E s \in Sessions :
        /\ DOMAIN Cart(s) = {Str(1), Str(SeedCount + 1)}
        /\ Cart(s)[Str(1)] = MaxCartQty
        /\ \E p \in Procs : pc[p] = "closed"
        /\ Len(orders) = 1

\* a step of thread p serving POST /api/v1/orders
ApiOrderStep(p) ==
    /\ req'[p].kind = "api"
    /\ <<pc[p], local[p], req[p]>>' # <<pc[p], local[p], req[p]>>

\* C12: after a successful web checkout the session's cart is empty and the
\* created order has exactly one order item per cart entry present before the
\* checkout (same quantity, in the cart's order); no step of the API order
\* creation touches a cart.
C12_CheckoutClearsCart ==
    [][\A p \in Procs :
         /\ WebCreates(p) =>
               LET cart == local[p].cart
                   oid  == local[p].order_id
                   new  == SubSeq(order_items', Len(order_items) + 1,
                                  Len(order_items'))
               IN  /\ Cart(req[p].sid)' = EmptyCart
                   /\ ItemsOf(oid) = {}
                   /\ SubSeq(order_items', 1, Len(order_items)) = order_items
                   /\ Len(new) = Len(cart)
                   /\ \A i \in 1..Len(cart) :
                         /\ new[i].order_id = oid
                         /\ new[i].quantity = cart[i].qty
                         /\ new[i].product_name = Product(SqlInt(cart[i].pid)).name
         /\ ApiOrderStep(p) => session' = session]_vars

\* a checkout of a cart of two entries has succeeded: cart empty, two items
C12_Witness ==
    \E p \in Procs :
        /\ pc[p] = "done" /\ req[p].kind = "web" /\ resp[p].status = 200
        /\ Cart(req[p].sid) = EmptyCart
        /\ Len(orders) = 1 /\ Len(order_items) = 2
        /\ order_items[1].quantity # order_items[2].quantity

\* ------------------------------------------------------------- admin claims
\* the answer to a request of a session that is not logged in as admin
Denied ==
    /\ out'.status = 302 /\ out'.location = "/admin/login" /\ out'.body = <<>>
    /\ products' = products /\ seqProducts' = seqProducts

\* C13: add, edit and delete product of the admin panel and the admin order
\* listing, invoked by a session whose admin flag is false, answer with a
\* redirect to the login page, leave the products table unchanged and
\* disclose no order.
C13_AdminRoutesGated ==
    [][\A s \in Sessions :
         ~session[s].admin =>
            /\ \A name \in NameInputs, price \in PriceInputs :
                  PostAdminProductsAdd(s, name, price) => Denied
            /\ \A id \in PidInputs : GetAdminProductsDelete(s, id) => Denied
            /\ \A id \in PidInputs, name \in NameInputs, price \in PriceInputs :
                  PostAdminProductsEdit(s, id, name, price) => Denied
            /\ GetAdminOrders(s) => Denied]_vars

\* an order exists and the order listing was refused to a session that is
\* not admin
C13_Witness ==
    /\ Len(orders) = 1 /\ Len(order_items) = 1
    /\ \E s \in Sessions : ~session[s].admin
    /\ out = Redirect("admin_orders", "/admin/login")

\* the pair is the stored admin row
MatchesAdminRow(cred) ==
    [username |-> cred.username, password |-> cred.password] \in AdminRows(admin)

OneStepApiCall ==
    \/ out'.op = "get_products" /\ GetApiProducts
    \/ out'.op = "get_product" /\ \E id \in PidInputs : GetApiProduct(id)
    \/ out'.op = "create_product"
          /\ \E data \in HttpProductBodies : PostApiProducts(data)
    \/ out'.op = "update_product"
          /\ \E id \in PidInputs, data \in ProductBodies : PutApiProduct(id, data)
    \/ out'.op = "delete_product" /\ \E id \in PidInputs : DeleteApiProduct(id)
    \/ out'.op = "get_orders" /\ GetApiOrders
    \/ out'.op = "get_order" /\ \E id \in OrderIdInputs : GetApiOrder(id)

CreateOrderReturns(p) == ApiOrderStep(p) /\ pc'[p] = "done"

\* one label of api_requests_total went up by one, the others stayed
OneLabelIncremented ==
    LET old == metrics.requests
        new == metrics'.requests
    IN  /\ DOMAIN old \subseteq DOMAIN new
        /\ \E l \in DOMAIN new :
              /\ new[l] = (IF l \in DOMAIN old THEN old[l] ELSE 0) + 1
              /\ \A k \in DOMAIN new \ {l} : k \in DOMAIN old /\ new[k] = old[k]

CountedOnce ==
    /\ OneLabelIncremented
    /\ metrics'.observations = metrics.observations + 1

\* C15: every call of an API handler wrapped by track_metrics, whether the
\* handler returns (any status) or raises, increments the request counter
\* exactly once and records exactly one latency observation.
C15_MetricsOncePerCall ==
    [][/\ OneStepApiCall => CountedOnce
       /\ \A p \in Procs :
             /\ CreateOrderReturns(p) => CountedOnce
             /\ (ApiOrderStep(p) /\ pc'[p] # "done") => metrics' = metrics]_vars

\* two calls were served, one whose handler raised and one whose handler
\* returned: two counts, two observations
C15_Witness ==
    /\ metrics.observations = 2
    /\ \E l, k \in DOMAIN metrics.requests :
          /\ l[3] = "500" /\ k[3] = "200"
          /\ metrics.requests[l] = 1 /\ metrics.requests[k] = 1

\* C16: POST /api/v1/products whose body lacks name or lacks price responds
\* 400 and adds no row to products.
C16_CreateNeedsNameAndPrice ==
    [][\A data \in HttpProductBodies :
         (out'.op = "create_product" /\ ~({"name", "price"} \subseteq data.keys)
             /\ PostApiProducts(data)) =>
            /\ out'.status = 400
            /\ products' = products /\ seqProducts' = seqProducts]_vars

\* a create was answered 400 and the table is as seeded
C16_Witness ==
    /\ out = Page("create_product", 400, <<>>)
    /\ products = SeedProducts /\ seqProducts = SeedCount

TablesUnchanged ==
    UNCHANGED <<products, seqProducts, orders, order_items, admin>>

NotFoundUnchanged == out'.status = 404 /\ TablesUnchanged

\* GET and DELETE of a product that is absent, and GET of an order that is
\* absent
AbsentIdNotFound ==
    /\ \A id \in PidInputs :
          ~HasProduct(id) =>
             /\ (out'.op = "get_product" /\ GetApiProduct(id)) => NotFoundUnchanged
             /\ (out'.op = "delete_product" /\ DeleteApiProduct(id)) =>
                   NotFoundUnchanged
    /\ \A id \in OrderIdInputs :
          id \notin 1..Len(orders) =>
             ((out'.op = "get_order" /\ GetApiOrder(id)) => NotFoundUnchanged)

\* C17 as stated: GET, PUT and DELETE on /api/v1/products/{id} for an id that
\* does not exist, and GET on /api/v1/orders/{id} for an order id that does
\* not exist, respond 404 and leave every table unchanged.
C17_AbsentIdAlways404 ==
    [][/\ AbsentIdNotFound
       /\ \A id \in PidInputs, data \in ProductBodies :
             (~HasProduct(id) /\ out'.op = "update_product"
                 /\ PutApiProduct(id, data)) => NotFoundUnchanged]_vars

\* C17, amended: GET and DELETE on /api/v1/products/{id} and PUT with a
\* non-empty JSON object, for a product id that does not exist, and GET on
\* /api/v1/orders/{id} for an order id that does not exist, respond 404; PUT
\* with an empty JSON object responds 400 (the body is checked before the
\* product is looked up); every table is left unchanged in each case.
C17_AbsentIdNotFound ==
    [][/\ AbsentIdNotFound
       /\ \A id \in PidInputs, data \in ProductBodies :
             (~HasProduct(id) /\ out'.op = "update_product"
                 /\ PutApiProduct(id, data)) =>
                /\ out'.status = IF data.keys = {} THEN 400 ELSE 404
                /\ TablesUnchanged]_vars

\* both product ids in use are absent (one deleted, one created and deleted)
\* and an update was answered 404
C17_Witness ==
    /\ ~HasProduct(1) /\ ~HasProduct(SeedCount + 1) /\ seqProducts = SeedCount + 1
    /\ out = Page("update_product", 404, <<>>)

\* a delete request for id, by the API or by a logged-in administrator
ApiDeleteOf(id) == out'.op = "delete_product" /\ DeleteApiProduct(id)

AdminDeleteOf(id) ==
    /\ out'.op = "admin_delete_product"
    /\ \E s \in Sessions : session[s].admin /\ GetAdminProductsDelete(s, id)

\* a delete removes the row of id and no other row
DeleteRemovesRow(id) ==
    (HasProduct(id) /\ (ApiDeleteOf(id) \/ AdminDeleteOf(id))) =>
       /\ DOMAIN products' = DOMAIN products \ {id}
       /\ \A k \in DOMAIN products' : products'[k] = products[k]
       /\ UNCHANGED <<orders, order_items>>

\* C18 as stated: delete(id) for an identifier that does not exist reports no
\* error and leaves products, orders and order_items unchanged, admin delete
\* and API delete alike.
C18_AbsentDeleteSilent ==
    [][\A id \in PidInputs :
         (~HasProduct(id) /\ (ApiDeleteOf(id) \/ AdminDeleteOf(id))) =>
            /\ out'.status < 400
            /\ UNCHANGED <<products, orders, order_items>>]_vars

\* C18, amended: delete(id) for an identifier that does not exist leaves
\* products, orders and order_items unchanged, so deleting the same id twice
\* leaves the tables as deleting it once does; the admin delete reports no
\* error (it redirects to /admin/products), the API delete reports 404.
C18_AbsentDeleteNoOp ==
    [][\A id \in PidInputs :
         /\ (~HasProduct(id) /\ ApiDeleteOf(id)) =>
               /\ out'.status = 404
               /\ UNCHANGED <<products, orders, order_items>>
         /\ (~HasProduct(id) /\ AdminDeleteOf(id)) =>
               /\ out' = Redirect("admin_delete_product", "/admin/products")
               /\ UNCHANGED <<products, orders, order_items>>
         /\ DeleteRemovesRow(id)]_vars

\* product 1 was deleted and the second of two API deletes was answered 404
C18_Witness ==
    /\ ~HasProduct(1) /\ seqProducts = SeedCount
    /\ \E l \in DOMAIN metrics.requests : l[1] = "DELETE" /\ metrics.requests[l] = 2
    /\ out = Page("delete_product", 404, <<>>)

\* PUT /api/v1/products/{id} of an existing product
UpdateOf(id, data) ==
    HasProduct(id) /\ out'.op = "update_product" /\ PutApiProduct(id, data)

\* the price, when supplied, is a number
NumericPrice(data) == "price" \in data.keys => data.price.num

\* each supplied field takes the supplied value, each field not supplied keeps
\* its previous value, and no other product row changes
UpdateApplied(id, data) ==
    /\ out'.status = 200
    /\ DOMAIN products' = DOMAIN products
    /\ products'[id].name =
          IF "name" \in data.keys THEN data.name ELSE products[id].name
    /\ products'[id].price =
          IF "price" \in data.keys THEN data.price.val ELSE products[id].price
    /\ \A k \in DOMAIN products \ {id} : products'[k] = products[k]

C20_PricesNonNegative ==
    \A id \in DOMAIN products : products[id].price >= 0

\* create answers 201 with an id no product has, and the row of that id holds
\* the name and price sent
CreateStoresRow(data) ==
    (out'.op = "create_product" /\ PostApiProducts(data) /\ out'.status = 201) =>
       LET id == out'.body[1].id
       IN  /\ id \notin DOMAIN products
           /\ id \in DOMAIN products'
           /\ products'[id] = [name |-> data.name, price |-> data.price.val]
           /\ \A k \in DOMAIN products : products'[k] = products[k]

\* get answers the row of the id as it stands, and 404 when there is none
GetReadsRow(id) ==
    (out'.op = "get_product" /\ GetApiProduct(id)) =>
       IF id \in DOMAIN products
       THEN out' = Page("get_product", 200,
                        <<[id |-> id, name |-> products[id].name,
                           price |-> products[id].price]>>)
       ELSE out'.status = 404

\* an update answered 200 leaves in the row the values it answers with
UpdateStoresRow(id, data) ==
    (out'.op = "update_product" /\ PutApiProduct(id, data) /\ out'.status = 200) =>
       /\ id \in DOMAIN products'
       /\ out'.body[1] = [id |-> id, name |-> products'[id].name,
                          price |-> products'[id].price]
       /\ "name" \in data.keys => products'[id].name = data.name
       /\ "price" \in data.keys => products'[id].price = data.price.val

\* a delete answered 200 leaves no row of the id
DeleteDropsRow(id) ==
    (out'.op = "delete_product" /\ DeleteApiProduct(id) /\ out'.status = 200) =>
       id \notin DOMAIN products'

\* C21: product round trip: after create(name, price) returns an id (distinct
\* from every existing product id), get(id) returns that name and price;
\* after a successful update, get(id) returns the updated values; after a
\* successful delete, get(id) responds 404.
C21_ProductRoundTrip ==
    [][/\ \A data \in CartProductBodies : CreateStoresRow(data)
       /\ \A id \in CatalogPids :
             /\ GetReadsRow(id)
             /\ DeleteDropsRow(id)
             /\ \A data \in CatalogUpdateBodies : UpdateStoresRow(id, data)]_vars

\* the whole round trip was made: one create, one update and one delete,
\* three gets, the last of them answered 404
C21_Witness ==
    /\ seqProducts = SeedCount + 1 /\ SeedCount + 1 \notin DOMAIN products
    /\ metrics.requests =
          (<<"POST", "/products", "200">> :> 1)
          @@ (<<"GET", "/products/<id>", "200">> :> 3)
          @@ (<<"PUT", "/products/<id>", "200">> :> 1)
          @@ (<<"DELETE", "/products/<id>", "200">> :> 1)
    /\ out = Page("get_product", 404, <<>>)

\* ------------------------------------------------------------- startup claims
\* the names of the demo products
SeedNames == {SeedProducts[i].name : i \in DOMAIN SeedProducts}

\* the rows of products that carry the name
RowsNamed(rows, name) == {k \in DOMAIN rows : rows[k].name = name}

\* C22: create_tables inserts the seed admin row only if the admin table is
\* empty and the five demo products only if the products table is empty; run
\* again on a store whose tables are non-empty it adds no rows, so after any
\* number of startups there is exactly one seeded admin row and the seed
\* products are never duplicated.
C22_SeededOnce ==
    /\ [][Startup =>
            /\ Len(admin) > 0 => admin' = admin
            /\ Len(admin) = 0 =>
                  admin' = <<[username |-> "admin", password |-> "1234"]>>
            /\ DOMAIN products # {} => products' = products
            /\ DOMAIN products = {} =>
                  /\ Cardinality(DOMAIN products') = SeedCount
                  /\ \A n \in SeedNames :
                        Cardinality(RowsNamed(products', n)) = 1]_vars
    /\ [](Len(admin) <= 1
          /\ \A n \in SeedNames : Cardinality(RowsNamed(products, n)) <= 1)

\* the process started again on a store some of whose demo products had been
\* deleted, and on one all of whose products had been deleted
C22_Witness ==
    /\ Len(admin) = 1
    /\ seqProducts = 2 * SeedCount
    /\ DOMAIN products = (SeedCount + 2)..(2 * SeedCount)
    /\ metrics = NoMetrics /\ out.op = "get_products"

\* create_tables has run on an empty store and no product has been created
\* or deleted since
FreshlyInitialised ==
    /\ Len(admin) = 1
    /\ seqProducts = SeedCount
    /\ DOMAIN products = 1..SeedCount

\* the list of the demo products as get_products answers it
SeedList ==
    [i \in 1..SeedCount |->
        [id |-> i, name |-> SeedProducts[i].name, price |-> SeedProducts[i].price]]

Resolvable(cart) == {k \in DOMAIN cart : SqlInt(k) \in DOMAIN products}

\* every entry of the cart is for a product that exists or has existed: ids
\* are handed out in order, up to seqProducts
EverExisted(cart) == \A k \in DOMAIN cart : SqlInt(k) \in 1..seqProducts

\* quantity x current price, summed over cart entries
RECURSIVE SumOver(_, _)
SumOver(cart, ks) ==
    IF ks = {} THEN 0
    ELSE LET k == CHOOSE x \in ks : TRUE
         IN  cart[k] * products[SqlInt(k)].price + SumOver(cart, ks \ {k})

\* C24: the cart view never fails: when a cart entry references a product
\* that has since been deleted, the view skips that line and still returns the
\* remaining lines, with a total equal to the sum of quantity x current price
\* over the resolvable lines only.
C24_CartViewSkipsDeleted ==
    [][\A s \in Sessions :
         (out'.op = "cart" /\ GetCart(s) /\ EverExisted(session[s].cart)) =>
            /\ out'.status = 200
            /\ {Str(out'.body[1].items[i].id) :
                   i \in DOMAIN out'.body[1].items} = Resolvable(session[s].cart)
            /\ out'.body[1].total =
                  SumOver(session[s].cart, Resolvable(session[s].cart))]_vars

\* ------------------------------------------------------------- labels
\* the status of a response as the text of a label
StatusText(n) ==
    CASE n = 200 -> "200" [] n = 201 -> "201" [] n = 400 -> "400"
      [] n = 404 -> "404" [] n = 500 -> "500" [] OTHER -> ""

\* the label whose count went up in this step names the status
IncrementedLabelHas(status) ==
    \E l \in DOMAIN metrics'.requests :
        /\ metrics'.requests[l] =
              (IF l \in DOMAIN metrics.requests THEN metrics.requests[l] ELSE 0) + 1
        /\ l[3] = status

\* C25: the request counter incremented for an API call carries the call's
\* method, its route, and a status label equal to the outcome status of the
\* response actually returned (200, 201, 400, 404 or 500).
C25_LabelIsOutcomeStatus ==
    [][OneStepApiCall => IncrementedLabelHas(StatusText(out'.status))]_vars

\* ------------------------------------------------------------- gate
\* a product was created, updated or deleted, or the list of orders returned
CatalogChangedOrOrdersListed ==
    \/ products' # products
    \/ out' # out /\ out'.op \in {"get_orders", "admin_orders"} /\ out'.status = 200

\* C26: the session admin flag gates every mutating catalog operation and all
\* order visibility: no product is created, updated or deleted, and the list
\* of orders is not returned, by a request whose session's admin flag is
\* false, requests made through the JSON API included.
C26_AdminFlagGatesAll ==
    [][CatalogChangedOrOrdersListed => \E s \in Sessions : session[s].admin]_vars

\* ------------------------------------------------------------- order ids
\* the order item rows written in this step
NewItemRows == {k \in 1..Len(order_items') : k > Len(order_items)}

\* thread p wrote its order row in this step
WritesOrder(p) ==
    /\ Len(orders') = Len(orders) + 1
    /\ \/ pc[p] = "order" /\ pc'[p] = "items"
       \/ pc[p] = "commit" /\ pc'[p] = "done"

\* the id thread p holds for the order row it wrote
OrderIdOf(p) ==
    IF pc[p] = "items" THEN local[p].order_id
    ELSE IF pc[p] = "done" /\ resp[p].status \in {200, 201} THEN resp[p].id ELSE 0

\* C27: with any number of order creations (web checkout and API)
\* interleaved, every order receives a distinct identifier and every order
\* item row created by a request carries the identifier of the order row
\* created by that same request, never that of an order created by a
\* concurrent request.
C27_ItemsCarryOwnOrderId ==
    /\ [](\A p, q \in Procs :
             (p # q /\ OrderIdOf(p) # 0) => OrderIdOf(p) # OrderIdOf(q))
    /\ [][\A p \in Procs :
            /\ WritesOrder(p) =>
                  /\ \A k \in 1..Len(orders) : orders'[k] = orders[k]
                  /\ OrderIdOf(p)' = Len(orders) + 1
            /\ (pc[p] = "items" /\ pc'[p] = "items") =>
                  local'[p].order_id = local[p].order_id
            /\ (pc'[p] = "done" /\ pc[p] \in {"items", "commit"}
                   /\ resp'[p].status \in {200, 201}) =>
                  \A k \in NewItemRows :
                      order_items'[k].order_id = resp'[p].id]_vars

\* a web checkout wrote order 1, an API request wrote order 2 with its items
\* between the two commits of the checkout, and the checkout's items came last
C27_Witness ==
    \E p, q \in Procs :
        /\ req[p].kind = "web" /\ resp[p].status = 200 /\ resp[p].id = 1
        /\ req[q].kind = "api" /\ resp[q].status = 201 /\ resp[q].id = 2
        /\ Len(order_items) >= 2
        /\ order_items[1].order_id = 2
        /\ order_items[Len(order_items)].order_id = 1

\* ------------------------------------------------------------- failed checkout
\* thread p, serving a web checkout, starts, or passes once through the loop
\* over the cart
WebStartStep(p) == pc[p] = "idle" /\ pc'[p] # "idle" /\ req'[p].kind = "web"
WebReadStep(p) == pc[p] = "read" /\ <<pc[p], local[p]>>' # <<pc[p], local[p]>>

\* the cart entry the loop is at names a product that is gone
AtMissingProduct(p) ==
    SqlInt(local[p].cart[local[p].i].pid) \notin DOMAIN products

\* C28: a web checkout POST that fails because a cart entry references a
\* product that no longer exists persists no order and no order item and
\* leaves the session's cart exactly as it was before the request.
C28_FailedCheckoutKeepsCart ==
    [][\A p \in Procs :
         /\ (WebStartStep(p) \/ WebReadStep(p)) =>
               /\ orders' = orders /\ order_items' = order_items
               /\ session' = session
         /\ (WebReadStep(p) /\ AtMissingProduct(p)) =>
               pc'[p] = "done" /\ resp'[p].status = 500]_vars

\* a checkout ended in 500 on a cart with an entry whose product is gone:
\* the cart is as it was, no order row and no item row exists
C28_Witness ==
    \E p \in Procs :
        /\ req[p].kind = "web" /\ pc[p] = "done" /\ resp[p].status = 500
        /\ Len(CartItems(session[req[p].sid].cart)) = 2
        /\ ~CartViewOk(session[req[p].sid].cart)
        /\ orders = <<>> /\ order_items = <<>>

\* ------------------------------------------------------------- quantities
\* C29: in every reachable state, every persisted order item has a positive
\* integer quantity and every persisted order has a total >= 0, whichever
\* flow (web checkout or POST /api/v1/orders with arbitrary item quantities)
\* created it.
C29_QuantitiesPositiveTotalsNonNegative ==
    /\ \A k \in 1..Len(order_items) : order_items[k].quantity > 0
    /\ \A o \in 1..Len(orders) : orders[o].total >= 0

\* ------------------------------------------------------------- product ids
\* a cart entry for a product that existed and has been deleted
Orphaned(k) == SqlInt(k) \in 1..seqProducts /\ SqlInt(k) \notin DOMAIN products

\* C30: a product identifier is never reused: after a product is deleted, no
\* later create returns its identifier, so a cart entry added for a product
\* that is later deleted never resolves, at view or checkout time, to a
\* different product.
C30_ProductIdNeverReused ==
    /\ [](\A id \in DOMAIN products : id <= seqProducts)
    /\ [][/\ seqProducts' >= seqProducts
          /\ \A id \in DOMAIN products' \ DOMAIN products : id > seqProducts
          /\ \A s \in Sessions :
                /\ \A k \in DOMAIN session[s].cart :
                      Orphaned(k) => SqlInt(k) \notin DOMAIN products'
                /\ (out'.op = "cart" /\ GetCart(s)
                       /\ \E k \in DOMAIN session[s].cart : Orphaned(k)) =>
                      out'.status = 500
          /\ \A p \in Procs :
                (WebReadStep(p) /\ Orphaned(local[p].cart[local[p].i].pid)) =>
                   pc'[p] = "done" /\ resp'[p].status = 500]_vars

\* the last demo product was put in the cart and deleted, a product was
\* created after that and got the next id, and the cart page did not resolve
\* the entry
C30_Witness ==
    /\ \E s \in Sessions : Str(SeedCount) \in DOMAIN session[s].cart
    /\ SeedCount \notin DOMAIN products
    /\ SeedCount + 1 \in DOMAIN products
    /\ out = Page("cart", 500, <<>>)

====
